---------------------------- MODULE Spec2Model ----------------------------
(***************************************************************************)
(* A model of src/main.py: the transcript endpoint with its layered        *)
(* fallback, the VTT cleaner, the JSON-LD recipe finder and the recipe     *)
(* scraper.                                                                *)
(*                                                                         *)
(* Python strings are sequences of one-character strings; the strings the *)
(* code never looks inside (urls, error causes) are sequences of larger    *)
(* fragments.  Python's None is the one-element sequence None, whose       *)
(* element is no character, or the record NoneDict where the code expects  *)
(* a dict.  JSON values are tagged records.                                *)
(***************************************************************************)
EXTENDS Integers, Sequences, FiniteSets, TLC

VARIABLES
    \* transcript(videoId, lang)
    \* primary_text: the text of line 101, None until the provider returns
    pc, videoId, lang, video_info, description, title, primary_text,
    exc, info, caption_url, fallback_exc, calls, result,
    \* _clean_vtt_text(vtt_text)
    cpc, vtt_text, cleaned, recleaned,
    \* _find_recipe_in_jsonld(data)
    fpc, data, found,
    \* scrape_recipe(url)
    spc, page_title, og_tag, og_image, recipe_data, body_text, sresult

tvars == <<pc, videoId, lang, video_info, description, title, primary_text,
           exc, info, caption_url, fallback_exc, calls,
           result>>
cvars == <<cpc, vtt_text, cleaned, recleaned>>
fvars == <<fpc, data, found>>
svars == <<spc, page_title, og_tag, og_image, recipe_data, body_text,
           sresult>>
vars == <<tvars, cvars, fvars, svars>>

\* None where a string is expected, and None where a dict is expected
None == <<"None">>
NoneDict == [none |-> TRUE]

-----------------------------------------------------------------------------
(* Bounds of the model.                                                    *)

\* pieces an input caption text is assembled from
MaxPieces == 4
\* caption tracks of one video, manual and automatic together
MaxTracks == 2
\* items the transcript provider returns
MaxItems == 2
\* nodes (mappings, sequences, scalars) of a JSON-LD document
MaxNodes == 4
\* JSON-LD script blocks of a page
MaxBlocks == 2

-----------------------------------------------------------------------------
(* Strings.                                                                *)

NL == "\n"

IsSpace(c) == c \in {" ", NL, "\t"}

IsDigit(c) == c \in {"0", "1", "2"}

\* the letters of the model's texts, lower case and upper case
LowerLetters ==
    <<"a", "b", "d", "e", "g", "h", "i", "k", "l", "n", "t", "u", "v", "w">>
UpperLetters ==
    <<"A", "B", "D", "E", "G", "H", "I", "K", "L", "N", "T", "U", "V", "W">>

\* str.upper / str.lower, one character
UpperChar(c) ==
    IF \E i \in 1..Len(LowerLetters) : LowerLetters[i] = c
    THEN UpperLetters[CHOOSE i \in 1..Len(LowerLetters) : LowerLetters[i] = c]
    ELSE c

LowerChar(c) ==
    IF \E i \in 1..Len(UpperLetters) : UpperLetters[i] = c
    THEN LowerLetters[CHOOSE i \in 1..Len(UpperLetters) : UpperLetters[i] = c]
    ELSE c

Upper(s) == [i \in 1..Len(s) |-> UpperChar(s[i])]

Lower(s) == [i \in 1..Len(s) |-> LowerChar(s[i])]

RECURSIVE LStrip(_)
LStrip(s) ==
    IF s # <<>> /\ IsSpace(Head(s)) THEN LStrip(Tail(s)) ELSE s

RECURSIVE RStrip(_)
RStrip(s) ==
    IF s # <<>> /\ IsSpace(s[Len(s)])
    THEN RStrip(SubSeq(s, 1, Len(s) - 1))
    ELSE s

\* str.strip()
Strip(s) == RStrip(LStrip(s))

\* str.startswith(p)
StartsWith(s, p) == Len(s) >= Len(p) /\ SubSeq(s, 1, Len(p)) = p

\* p in s
Contains(s, p) ==
    \E i \in 1..(Len(s) - Len(p) + 1) : SubSeq(s, i, i + Len(p) - 1) = p

\* str.splitlines(): a trailing line break opens no further line
RECURSIVE SplitLinesFrom(_, _)
SplitLinesFrom(s, cur) ==
    IF s = <<>> THEN (IF cur = <<>> THEN <<>> ELSE <<cur>>)
    ELSE IF Head(s) = NL THEN <<cur>> \o SplitLinesFrom(Tail(s), <<>>)
    ELSE SplitLinesFrom(Tail(s), Append(cur, Head(s)))

SplitLines(s) == SplitLinesFrom(s, <<>>)

\* " ".join(parts)
RECURSIVE JoinSpace(_)
JoinSpace(parts) ==
    IF parts = <<>> THEN <<>>
    ELSE IF Len(parts) = 1 THEN parts[1]
    ELSE parts[1] \o <<" ">> \o JoinSpace(Tail(parts))

\* s.replace("  ", " "): one pass, left to right, over non-overlapping pairs
RECURSIVE ReplaceDoubleSpace(_)
ReplaceDoubleSpace(s) ==
    IF Len(s) < 2 THEN s
    ELSE IF s[1] = " " /\ s[2] = " "
         THEN <<" ">> \o ReplaceDoubleSpace(SubSeq(s, 3, Len(s)))
         ELSE <<s[1]>> \o ReplaceDoubleSpace(Tail(s))

\* index of the first ">" of s at or after i, 0 when there is none
RECURSIVE FirstGt(_, _)
FirstGt(s, i) ==
    IF i > Len(s) THEN 0
    ELSE IF s[i] = ">" THEN i
    ELSE FirstGt(s, i + 1)

\* re.sub(r"<[^>]+>", " ", s)
RECURSIVE SubTags(_)
SubTags(s) ==
    IF s = <<>> THEN <<>>
    ELSE IF s[1] = "<" /\ FirstGt(s, 2) > 2
         THEN <<" ">> \o SubTags(SubSeq(s, FirstGt(s, 2) + 1, Len(s)))
         ELSE <<s[1]>> \o SubTags(Tail(s))

\* re.match(r"^\d+$", s)
AllDigits(s) == s # <<>> /\ \A i \in 1..Len(s) : IsDigit(s[i])

WEBVTT == <<"W", "E", "B", "V", "T", "T">>
Arrow == <<"-", "-", ">">>
KindPrefix == <<"k", "i", "n", "d", ":">>
LanguagePrefix == <<"l", "a", "n", "g", "u", "a", "g", "e", ":">>

\* the tests of the loop body that skip a line
DroppedLine(stripped) ==
    \/ stripped = <<>>
    \/ Upper(stripped) = WEBVTT
    \/ Contains(stripped, Arrow)
    \/ AllDigits(stripped)
    \/ StartsWith(Lower(stripped), KindPrefix)
    \/ StartsWith(Lower(stripped), LanguagePrefix)

\* the loop of _clean_vtt_text: the list `lines`
RECURSIVE KeptLines(_)
KeptLines(ls) ==
    IF ls = <<>> THEN <<>>
    ELSE LET stripped == Strip(Head(ls))
         IN  IF DroppedLine(stripped) THEN KeptLines(Tail(ls))
             ELSE <<SubTags(stripped)>> \o KeptLines(Tail(ls))

_clean_vtt_text(text) ==
    Strip(ReplaceDoubleSpace(JoinSpace(KeptLines(SplitLines(text)))))

-----------------------------------------------------------------------------
(* The cleaner applied to bounded caption texts.                           *)

Pieces ==
    { WEBVTT, Arrow, KindPrefix, <<"<", "b", ">">>, <<"<">>, <<">">>,
      <<" ">>, <<NL>>, <<"1">>, <<"a">> }

RECURSIVE Flatten(_)
Flatten(ps) == IF ps = <<>> THEN <<>> ELSE Head(ps) \o Flatten(Tail(ps))

SeqsUpTo(S, n) == UNION { [1..m -> S] : m \in 0..n }

VttInputs == { Flatten(ps) : ps \in SeqsUpTo(Pieces, MaxPieces) }

-----------------------------------------------------------------------------
(* The transcript endpoint.                                                *)

VideoIds == { <<"vid1">> }
Langs == { <<"en">>, <<"fr">> }

Exts == { <<"vtt">>, <<"json3">> }
Urls == { <<>>, <<"u1">>, <<"u2">> }
Entries == [ext : Exts, url : Urls]

\* a track store: language -> entries; the video has tracks in one language
StoreOf(k, entries) == [l \in Langs |-> IF l = k THEN entries ELSE <<>>]

TrackPairs ==
    { p \in SeqsUpTo(Entries, MaxTracks) \X SeqsUpTo(Entries, MaxTracks) :
        Len(p[1]) + Len(p[2]) <= MaxTracks }

Metas ==
    { [description |-> None, title |-> None],
      [description |-> None, title |-> <<"t">>],
      [description |-> <<"d">>, title |-> <<"t">>] }

\* what the metadata extractor can return for a video
Infos ==
    { [description |-> m.description, title |-> m.title,
       subtitles |-> StoreOf(k, p[1]),
       automatic_captions |-> StoreOf(k, p[2])] :
        m \in Metas, k \in Langs, p \in TrackPairs }

\* what the transcript provider can return
Items ==
    { [text |-> <<>>], [text |-> <<" ">>], [text |-> <<"h", "i">>],
      [start |-> 0] }
ItemSeqs == SeqsUpTo(Items, MaxItems)

\* why the providers fail
PrimaryCauses == { <<"TranscriptsDisabled">> }
ExtractorCauses == { <<"DownloadError">> }
HttpCauses == { <<"404 Client Error">>, <<"Read timed out">> }
EmptyPrimary == <<"Empty transcript from primary API">>
NoCaptions == <<"No captions found for requested language">>

\* caption tracks the download can return
CaptionBodies ==
    { <<>>,
      Flatten(<<WEBVTT, <<NL>>, <<NL>>, <<"1">>, <<NL>>, <<"0">>, <<" ">>,
                Arrow, <<" ">>, <<"1">>, <<NL>>>>),
      Flatten(<<WEBVTT, <<NL>>, <<NL>>, <<"1">>, <<NL>>, <<"0">>, <<" ">>,
                Arrow, <<" ">>, <<"1">>, <<NL>>, <<"<", "b", ">">>,
                <<"h", "i">>, <<"<", "/", "b", ">">>, <<NL>>>>) }

\* bool(x) of a string or None
Truthy(x) == x # None /\ x # <<>>

\* item.get("text", "")
ItemText(item) == IF "text" \in DOMAIN item THEN item.text ELSE <<>>

\* " ".join([item.get("text", "") for item in transcript_items]).strip()
JoinedText(items) ==
    Strip(JoinSpace([i \in 1..Len(items) |-> ItemText(items[i])]))

\* the first loop of pick_caption_url, from entry i on
RECURSIVE FirstVttUrl(_, _)
FirstVttUrl(entries, i) ==
    IF i > Len(entries) THEN None
    ELSE IF entries[i].ext = <<"vtt">> /\ Truthy(entries[i].url)
         THEN entries[i].url
         ELSE FirstVttUrl(entries, i + 1)

\* the second loop of pick_caption_url, from entry i on
RECURSIVE FirstAnyUrl(_, _)
FirstAnyUrl(entries, i) ==
    IF i > Len(entries) THEN None
    ELSE IF Truthy(entries[i].url) THEN entries[i].url
    ELSE FirstAnyUrl(entries, i + 1)

\* a pick_caption_url without its first loop: the format is not preferred
pick_caption_url_any(store, l) == FirstAnyUrl(store[l], 1)

pick_caption_url(store, l) ==
    LET entries == store[l]
    IN  IF FirstVttUrl(entries, 1) # None THEN FirstVttUrl(entries, 1)
        ELSE FirstAnyUrl(entries, 1)

\* pick_caption_url(captions) or pick_caption_url(auto_captions)
PickedUrl(i, l) ==
    IF Truthy(pick_caption_url(i.subtitles, l))
    THEN pick_caption_url(i.subtitles, l)
    ELSE pick_caption_url(i.automatic_captions, l)

\* an error string that drops the primary cause
ErrorStringFallbackOnly(e, fe) == <<"fallback: ">> \o fe

\* f"{exc} | fallback: {fallback_exc}"
ErrorString(e, fe) == e \o <<" | fallback: ">> \o fe

\* the emptiness test of line 102 inverted
PrimaryReturnsInverted(text) == text = <<>>

\* the emptiness test of line 102 left out
PrimaryReturnsAlways(text) == TRUE

\* line 102: `if not text: raise`, else the primary text is returned
PrimaryReturns(text) == text # <<>>

\* a fallback that fetches the metadata whether or not step 1 got it
NeedsFetchAlways(vi) == TRUE

\* line 52: `if info is None`
NeedsFetch(vi) == vi = NoneDict

SuccessResult(text, d, t) ==
    [success |-> TRUE, videoId |-> videoId, transcript |-> text,
     description |-> d, title |-> t]

\* a failure result whose transcript is the empty string instead of None
FailureResultEmptyText(e, fe, d, t) ==
    [success |-> FALSE, videoId |-> videoId, error |-> ErrorString(e, fe),
     transcript |-> <<>>, description |-> d, title |-> t]

FailureResult(e, fe, d, t) ==
    [success |-> FALSE, videoId |-> videoId, error |-> ErrorString(e, fe),
     transcript |-> None, description |-> d, title |-> t]

TInit ==
    /\ pc = "metadata"
    /\ videoId \in VideoIds
    /\ lang \in Langs
    /\ video_info = NoneDict
    /\ description = None
    /\ title = None
    /\ primary_text = None
    /\ exc = None
    /\ info = NoneDict
    /\ caption_url = None
    /\ fallback_exc = None
    /\ calls = <<>>
    /\ result = NoneDict

\* the fallback raised fe: the inner except builds the failure result
FallbackFails(fe) ==
    /\ fallback_exc' = fe
    /\ result' = FailureResult(exc, fe, description, title)
    /\ pc' = "done"

\* lines 87-92: the metadata fetch, its failure swallowed
FetchVideoInfo ==
    /\ pc = "metadata"
    /\ calls' = Append(calls, "extract_info")
    /\ \/ \E i \in Infos :
            /\ video_info' = i
            /\ description' = i.description
            /\ title' = i.title
       \/ UNCHANGED <<video_info, description, title>>
    /\ pc' = "primary"
    /\ UNCHANGED <<videoId, lang, primary_text, exc, info,
                   caption_url, fallback_exc, result>>

\* lines 95-111: the primary lookup
PrimaryLookup ==
    /\ pc = "primary"
    /\ calls' = Append(calls, "get_transcript")
    /\ \/ \E items \in ItemSeqs :
            /\ primary_text' = JoinedText(items)
            /\ IF PrimaryReturns(JoinedText(items))
               THEN /\ result' = SuccessResult(JoinedText(items),
                                               description, title)
                    /\ pc' = "done"
                    /\ exc' = exc
               ELSE /\ exc' = EmptyPrimary
                    /\ pc' = "fallback"
                    /\ result' = result
       \/ \E e \in PrimaryCauses :
            /\ exc' = e
            /\ pc' = "fallback"
            /\ UNCHANGED <<primary_text, result>>
    /\ UNCHANGED <<videoId, lang, video_info, description, title, info,
                   caption_url, fallback_exc>>

\* lines 52-53: the fallback takes the metadata of step 1, or fetches it now
FallbackInfo ==
    /\ pc = "fallback"
    /\ \/ /\ ~NeedsFetch(video_info)
          /\ info' = video_info
          /\ pc' = "pick"
          /\ UNCHANGED <<calls, fallback_exc, result>>
       \/ /\ NeedsFetch(video_info)
          /\ calls' = Append(calls, "extract_info")
          /\ \/ \E i \in Infos :
                  /\ info' = i
                  /\ pc' = "pick"
                  /\ UNCHANGED <<fallback_exc, result>>
             \/ \E fe \in ExtractorCauses :
                  /\ FallbackFails(fe)
                  /\ info' = info
    /\ UNCHANGED <<videoId, lang, video_info, description, title, primary_text,
                   exc, caption_url>>

\* lines 55-70: the caption url, or RuntimeError
PickCaption ==
    /\ pc = "pick"
    /\ caption_url' = PickedUrl(info, lang)
    /\ IF Truthy(PickedUrl(info, lang))
       THEN /\ pc' = "download"
            /\ UNCHANGED <<fallback_exc, result>>
       ELSE FallbackFails(NoCaptions)
    /\ UNCHANGED <<videoId, lang, video_info, description, title, primary_text,
                   exc, info, calls>>

\* lines 72-74 and 114-126: the download, the cleaning, the result
DownloadCaption ==
    /\ pc = "download"
    /\ calls' = Append(calls, "requests.get")
    /\ \/ \E body \in CaptionBodies :
            LET backfill == ~Truthy(description)
                d == IF backfill THEN info.description ELSE description
                t == IF backfill THEN info.title ELSE title
            IN  /\ description' = d
                /\ title' = t
                /\ result' = SuccessResult(_clean_vtt_text(body), d, t)
                /\ pc' = "done"
                /\ fallback_exc' = fallback_exc
       \/ \E fe \in HttpCauses :
            /\ FallbackFails(fe)
            /\ UNCHANGED <<description, title>>
    /\ UNCHANGED <<videoId, lang, video_info, primary_text,
                   exc, info, caption_url>>

TIdle ==
    /\ pc = "idle" /\ videoId = None /\ lang = None
    /\ video_info = NoneDict /\ description = None /\ title = None
    /\ primary_text = None /\ exc = None /\ info = NoneDict
    /\ caption_url = None /\ fallback_exc = None /\ calls = <<>>
    /\ result = NoneDict
CIdle ==
    /\ cpc = "idle" /\ vtt_text = None /\ cleaned = None /\ recleaned = None
FIdle ==
    /\ fpc = "idle" /\ data = NoneDict /\ found = NoneDict
SIdle ==
    /\ spc = "idle" /\ page_title = NoneDict /\ og_tag = NoneDict
    /\ og_image = NoneDict /\ recipe_data = NoneDict
    /\ body_text = NoneDict /\ sresult = NoneDict

Init == TInit /\ CIdle /\ FIdle /\ SIdle

Next ==
    \/ FetchVideoInfo /\ UNCHANGED <<cvars, fvars, svars>>
    \/ PrimaryLookup /\ UNCHANGED <<cvars, fvars, svars>>
    \/ FallbackInfo /\ UNCHANGED <<cvars, fvars, svars>>
    \/ PickCaption /\ UNCHANGED <<cvars, fvars, svars>>
    \/ DownloadCaption /\ UNCHANGED <<cvars, fvars, svars>>

Spec == Init /\ [][Next]_vars

-----------------------------------------------------------------------------
(* Properties of the transcript endpoint, checked under Spec.              *)

Count(seq, x) == Cardinality({ i \in 1..Len(seq) : seq[i] = x })

EndsWith(s, p) ==
    Len(s) >= Len(p) /\ SubSeq(s, Len(s) - Len(p) + 1, Len(s)) = p

\* C1: once the primary lookup has returned a non-empty joined, trimmed
\* text, the request is over with success=true and that text, with the
\* metadata of step 1 whatever it was, and the fallback was never entered:
\* no second metadata fetch, no caption url, no caption-track download.
PrimaryTextShortCircuits ==
    Truthy(primary_text) =>
        /\ pc = "done"
        /\ result.success
        /\ result.transcript = primary_text
        /\ result.description = description
        /\ result.title = title
        /\ calls = <<"extract_info", "get_transcript">>
        /\ info = NoneDict
        /\ caption_url = None
        /\ exc = None /\ fallback_exc = None

\* C1's case: the primary text is returned although the metadata fetch failed
PrimaryTextReturnedWithoutMetadata ==
    /\ pc = "done"
    /\ Truthy(primary_text)
    /\ video_info = NoneDict
    /\ result.success
    /\ result.description = None

\* C2: a request always ends with a result (no step before the end is
\* stuck); the result has success=false exactly when the primary lookup
\* failed (raised or empty text) and the fallback raised, and then its
\* error string begins with the primary cause and ends with the fallback
\* cause.
FailsExactlyWhenBothFail ==
    /\ pc \in {"metadata", "primary", "fallback", "pick", "download", "done"}
    /\ pc # "done" => ENABLED Next
    /\ pc = "done" =>
        /\ result.success \in BOOLEAN
        /\ result.success = FALSE <=> (exc # None /\ fallback_exc # None)
        /\ result.success = FALSE =>
            /\ StartsWith(result.error, exc)
            /\ EndsWith(result.error, fallback_exc)
            /\ Len(result.error) > Len(exc) + Len(fallback_exc)

\* C2's case: an empty primary text and no captions for the language
BothFailed ==
    /\ pc = "done"
    /\ result.success = FALSE
    /\ exc = EmptyPrimary
    /\ fallback_exc = NoCaptions

\* C3: a result with success=false has transcript none and an error string.
FailureCarriesNoTranscript ==
    (pc = "done" /\ result.success = FALSE) =>
        /\ result.transcript = None
        /\ "error" \in DOMAIN result
        /\ Truthy(result.error)

\* C3's case: a failed request that kept the metadata of step 1
FailureWithMetadata ==
    /\ pc = "done"
    /\ result.success = FALSE
    /\ result.description = <<"d">>

\* the usable entries of a store for a language, by position
UsableAt(store, l) == { i \in 1..Len(store[l]) : Truthy(store[l][i].url) }
VttUsableAt(store, l) ==
    { i \in UsableAt(store, l) : store[l][i].ext = <<"vtt">> }
MinOf(S) == CHOOSE i \in S : \A j \in S : i <= j

\* the url the priority order asks for, None when there is none
PriorityUrl(i, l) ==
    IF VttUsableAt(i.subtitles, l) # {}
    THEN i.subtitles[l][MinOf(VttUsableAt(i.subtitles, l))].url
    ELSE IF UsableAt(i.subtitles, l) # {}
    THEN i.subtitles[l][MinOf(UsableAt(i.subtitles, l))].url
    ELSE IF VttUsableAt(i.automatic_captions, l) # {}
    THEN i.automatic_captions[l][MinOf(VttUsableAt(i.automatic_captions, l))].url
    ELSE IF UsableAt(i.automatic_captions, l) # {}
    THEN i.automatic_captions[l][MinOf(UsableAt(i.automatic_captions, l))].url
    ELSE None

\* the fallback has chosen its caption url
Picked == pc = "download" \/ (pc = "done" /\ info # NoneDict)

\* C4: the caption url the fallback chooses is the first manual vtt entry
\* with a url, else the first manual entry with a url, else the first
\* automatic vtt entry with a url, else the first automatic entry with a
\* url; when there is none the fallback fails with 'No captions found for
\* requested language' and no download was attempted.
CaptionUrlFollowsPriority ==
    Picked =>
        /\ caption_url = PriorityUrl(info, lang)
        /\ caption_url = None =>
            /\ pc = "done"
            /\ fallback_exc = NoCaptions
            /\ result.success = FALSE
            /\ EndsWith(result.error, NoCaptions)
            /\ Count(calls, "requests.get") = 0
        /\ Count(calls, "requests.get") > 0 => Truthy(caption_url)

\* C4's case: a manual track in another format wins over an automatic vtt
ManualTrackBeatsAutomaticVtt ==
    /\ pc = "download"
    /\ info.subtitles[lang] = <<[ext |-> <<"json3">>, url |-> <<"u1">>]>>
    /\ info.automatic_captions[lang] = <<[ext |-> <<"vtt">>, url |-> <<"u2">>]>>
    /\ caption_url = <<"u1">>

\* C9 as stated: at most one metadata fetch, one provider call and one
\* download per request, the provider call after the metadata attempt and
\* before any download.
AtMostOneCallEach ==
    /\ Count(calls, "extract_info") <= 1
    /\ Count(calls, "get_transcript") <= 1
    /\ Count(calls, "requests.get") <= 1
    /\ \A i, j \in 1..Len(calls) :
        /\ (calls[i] = "extract_info" /\ calls[j] = "get_transcript") => i < j
        /\ (calls[i] = "get_transcript" /\ calls[j] = "requests.get") => i < j

IsPrefix(s, t) == Len(s) <= Len(t) /\ SubSeq(t, 1, Len(s)) = s

\* C9 amended: the calls of a request are a prefix of metadata fetch,
\* provider call, download, or, only when step 1 got no metadata and the
\* primary lookup failed, of metadata fetch, provider call, metadata fetch,
\* download; so the extractor is called at most twice, the provider and
\* the download at most once each.
CallsInOrder ==
    \/ IsPrefix(calls, <<"extract_info", "get_transcript", "requests.get">>)
    \/ /\ IsPrefix(calls, <<"extract_info", "get_transcript",
                            "extract_info", "requests.get">>)
       /\ video_info = NoneDict
       /\ exc # None

\* C9's case: the worst case of four outbound calls
FourCalls ==
    /\ pc = "done"
    /\ calls = <<"extract_info", "get_transcript", "extract_info",
                 "requests.get">>

\* C10 as stated: every result with success=true has a non-empty transcript.
SuccessHasText ==
    (pc = "done" /\ result.success) => Truthy(result.transcript)

\* C10 amended: every result with success=true has a transcript string;
\* it is empty only on the fallback path, where the cleaned text of the
\* downloaded caption track is returned as it is.
SuccessHasTextUnlessFallback ==
    (pc = "done" /\ result.success) =>
        /\ result.transcript # None
        /\ result.transcript = <<>> =>
            /\ Count(calls, "requests.get") = 1
            /\ exc # None
        /\ Count(calls, "requests.get") = 0 =>
            result.transcript = primary_text

\* C10's case: a caption track of header, index and timing lines only
EmptyFallbackSucceeds ==
    /\ pc = "done"
    /\ result.success
    /\ result.transcript = <<>>
    /\ fallback_exc = None

-----------------------------------------------------------------------------
(* The cleaner applied to a caption text, and to its own output.           *)

CInit ==
    /\ cpc = "start"
    /\ vtt_text \in VttInputs
    /\ cleaned = None
    /\ recleaned = None

Clean ==
    /\ cpc = "start"
    /\ cleaned' = _clean_vtt_text(vtt_text)
    /\ cpc' = "cleaned"
    /\ UNCHANGED <<vtt_text, recleaned>>

CleanAgain ==
    /\ cpc = "cleaned"
    /\ recleaned' = _clean_vtt_text(cleaned)
    /\ cpc' = "recleaned"
    /\ UNCHANGED <<vtt_text, cleaned>>

InitClean == TIdle /\ CInit /\ FIdle /\ SIdle

NextClean ==
    \/ Clean /\ UNCHANGED <<tvars, fvars, svars>>
    \/ CleanAgain /\ UNCHANGED <<tvars, fvars, svars>>

SpecClean == InitClean /\ [][NextClean]_vars

\* C6: cleaning the cleaned text again gives the same text.
CleanIsIdempotent == cpc = "recleaned" => recleaned = cleaned

-----------------------------------------------------------------------------
(* JSON values.                                                            *)

JNull == [k |-> "null"]
JStr(s) == [k |-> "str", s |-> s]
JNum(n) == [k |-> "num", n |-> n]
JList(items) == [k |-> "list", items |-> items]
\* a mapping: f is a function from its keys to their values
JMap(f) == [k |-> "map", f |-> f]

\* bool(v)
JTruthy(v) ==
    CASE v.k = "null" -> FALSE
      [] v.k = "str" -> v.s # ""
      [] v.k = "num" -> v.n # 0
      [] v.k = "list" -> v.items # <<>>
      [] v.k = "map" -> DOMAIN v.f # {}
      [] OTHER -> TRUE

\* d.get(key, default)
Get(d, key, default) == IF key \in DOMAIN d.f THEN d.f[key] ELSE default

\* x in seq
InSeq(x, seq) == \E i \in 1..Len(seq) : seq[i] = x

\* lines 226-231: the @type of a mapping as a list
TypesOf(d) ==
    LET schema_type == Get(d, "@type", JStr(""))
    IN  IF schema_type.k = "list" THEN schema_type.items
        ELSE <<schema_type>>

RECURSIVE _find_recipe_in_jsonld(_)

\* a loop over a sequence that keeps the last match instead of the first
RECURSIVE FindInItemsLast(_, _)
FindInItemsLast(items, i) ==
    IF i > Len(items) THEN JNull
    ELSE IF JTruthy(FindInItemsLast(items, i + 1))
         THEN FindInItemsLast(items, i + 1)
         ELSE _find_recipe_in_jsonld(items[i])

\* lines 242-246: the loop over a sequence, from element i on
RECURSIVE FindInItems(_, _)
FindInItems(items, i) ==
    IF i > Len(items) THEN JNull
    ELSE IF JTruthy(_find_recipe_in_jsonld(items[i]))
         THEN _find_recipe_in_jsonld(items[i])
         ELSE FindInItems(items, i + 1)

_find_recipe_in_jsonld(d) ==
    IF d.k = "map"
    THEN IF InSeq(JStr("Recipe"), TypesOf(d)) THEN d
         ELSE IF "@graph" \in DOMAIN d.f
                 /\ JTruthy(_find_recipe_in_jsonld(d.f["@graph"]))
              THEN _find_recipe_in_jsonld(d.f["@graph"])
              ELSE JNull
    ELSE IF d.k = "list" THEN FindInItems(d.items, 1)
    ELSE JNull

-----------------------------------------------------------------------------
(* The finder applied to bounded JSON-LD documents.                        *)

\* the function f without the keys whose value is Absent
Absent == [k |-> "absent"]
MapOf(f) == JMap([key \in { x \in DOMAIN f : f[x] # Absent } |-> f[key]])

\* mappings without @graph: two Recipe nodes and two that are none
LeafMaps ==
    { MapOf([x \in {"@type", "name"} |-> IF x = "@type" THEN p[1] ELSE p[2]]) :
        p \in { <<JStr("Recipe"), JStr("X")>>,
                <<JList(<<JStr("Thing"), JStr("Recipe")>>), JStr("Y")>>,
                <<JStr("Thing"), JStr("X")>>,
                <<Absent, JStr("X")>> } }

Scalars == { JStr("Recipe") }

WithGraph(m, g) ==
    JMap([key \in DOMAIN m.f \cup {"@graph"} |->
            IF key = "@graph" THEN g ELSE m.f[key]])

\* the documents of exactly n nodes, and the sequences of documents of n
\* nodes in all
RECURSIVE DocsOfSize(_)
RECURSIVE ForestsOfSize(_)
DocsOfSize(n) ==
    IF n <= 0 THEN {}
    ELSE IF n = 1 THEN LeafMaps \cup Scalars \cup { JList(<<>>) }
    ELSE { JList(f) : f \in ForestsOfSize(n - 1) }
         \cup { WithGraph(m, g) : m \in LeafMaps, g \in DocsOfSize(n - 1) }

ForestsOfSize(n) ==
    IF n = 0 THEN { <<>> }
    ELSE UNION { { <<t>> \o f : t \in DocsOfSize(m), f \in ForestsOfSize(n - m) } :
                 m \in 1..n }

JsonDocs == UNION { DocsOfSize(n) : n \in 1..MaxNodes }

FInit ==
    /\ fpc = "start"
    /\ data \in JsonDocs
    /\ found = NoneDict

FindRecipe ==
    /\ fpc = "start"
    /\ found' = _find_recipe_in_jsonld(data)
    /\ fpc' = "done"
    /\ data' = data

InitFind == TIdle /\ CIdle /\ FInit /\ SIdle

NextFind == FindRecipe /\ UNCHANGED <<tvars, cvars, svars>>

SpecFind == InitFind /\ [][NextFind]_vars

\* a node that is a Recipe: a mapping whose @type is the string Recipe or a
\* sequence holding it
IsRecipe(v) ==
    /\ v.k = "map"
    /\ "@type" \in DOMAIN v.f
    /\ \/ v.f["@type"] = JStr("Recipe")
       \/ /\ v.f["@type"].k = "list"
          /\ \E i \in 1..Len(v.f["@type"].items) :
                v.f["@type"].items[i] = JStr("Recipe")

\* the nodes of a document in depth-first pre-order, over the elements of
\* sequences and the @graph of mappings
RECURSIVE PreOrder(_)
RECURSIVE PreOrderAll(_)
PreOrder(v) ==
    IF v.k = "map"
    THEN <<v>> \o (IF "@graph" \in DOMAIN v.f THEN PreOrder(v.f["@graph"])
                   ELSE <<>>)
    ELSE IF v.k = "list" THEN <<v>> \o PreOrderAll(v.items)
    ELSE <<v>>

PreOrderAll(items) ==
    IF items = <<>> THEN <<>>
    ELSE PreOrder(Head(items)) \o PreOrderAll(Tail(items))

FirstRecipe(v) ==
    LET nodes == PreOrder(v)
        at == { i \in 1..Len(nodes) : IsRecipe(nodes[i]) }
    IN  IF at = {} THEN JNull ELSE nodes[MinOf(at)]

\* C5: the finder returns the first Recipe node of the document in
\* depth-first pre-order, and none when the document has no Recipe node.
FinderReturnsFirstRecipe ==
    fpc = "done" => found = FirstRecipe(data)

\* C5's case: a Recipe mapping whose @graph holds another Recipe is itself
\* the result
RecipeWithRecipeInGraph ==
    /\ fpc = "done"
    /\ IsRecipe(data)
    /\ "@graph" \in DOMAIN data.f
    /\ IsRecipe(data.f["@graph"])
    /\ data.f["@graph"] # data
    /\ found = data

-----------------------------------------------------------------------------
(* The recipe scraper.  None is JNull here.  A text the code only measures *)
(* and cuts is [k |-> "text", of, len]: the first len characters of a text *)
(* of `of` characters.                                                     *)

\* line 182: the page text is cut to this many characters
PageTextLimit == 8000

Text(n) == [k |-> "text", of |-> n, len |-> n]

\* lines 182-183
Truncate(t) ==
    IF t.len > PageTextLimit THEN [t EXCEPT !.len = PageTextLimit] ELSE t

\* what soup.get_text can return
BodyTexts == { Text(n) : n \in {0, 40, 8000, 8001, 12000} }

\* what soup.title gives
PageTitles == { JNull, JStr("Page") }

Attrs(content) ==
    MapOf([x \in {"property", "content"} |->
             IF x = "property" THEN JStr("og:image") ELSE content])

\* what soup.find("meta", property="og:image") can return: no tag, or the
\* first such tag, with no content, an empty one, or a url
OgTags ==
    { JNull, Attrs(Absent), Attrs(JStr("")), Attrs(JStr("https://img/x.jpg")) }

Obj(key, v) == JMap([x \in {key} |-> v])

\* the shapes of a recipe's image field
Images ==
    { Absent, JStr(""), JStr("https://img/y.jpg"),
      JList(<<>>), JList(<<JStr("https://img/y.jpg")>>),
      JList(<<Obj("url", JStr("https://img/z.jpg"))>>),
      JList(<<Obj("width", JNum(1))>>), JList(<<JNum(1)>>),
      Obj("url", JStr("https://img/z.jpg")), Obj("width", JNum(1)),
      JMap(<<>>), JNum(5) }

Instructions == { Absent, JList(<<>>), JList(<<JStr("Boil")>>) }

Recipe(name, image, instructions) ==
    MapOf([x \in {"@type", "name", "image", "recipeInstructions"} |->
             CASE x = "@type" -> JStr("Recipe")
               [] x = "name" -> name
               [] x = "image" -> image
               [] x = "recipeInstructions" -> instructions])

Recipes ==
    { Recipe(JStr("Soup"), i, r) : i \in Images, r \in Instructions }
    \cup { Recipe(Absent, Absent, r) : r \in Instructions }

Thing == Obj("@type", JStr("Thing"))

\* a script block whose text json.loads rejects
Unparsable == [k |-> "invalid"]

\* the JSON-LD script blocks of a page
Blocks ==
    Recipes
    \cup { Unparsable, Thing,
           Obj("@graph", JList(<<Thing, Recipe(JStr("Stew"), Absent, Absent)>>)) }

\* lines 166-174: the scan of the script blocks, from block i on
RECURSIVE ScanBlocks(_, _)
ScanBlocks(blocks, i) ==
    IF i > Len(blocks) THEN JNull
    ELSE IF blocks[i] = Unparsable THEN ScanBlocks(blocks, i + 1)
    ELSE IF JTruthy(_find_recipe_in_jsonld(blocks[i]))
         THEN _find_recipe_in_jsonld(blocks[i])
         ELSE ScanBlocks(blocks, i + 1)

\* lines 161-163
OgImageOf(tag) ==
    IF tag # JNull /\ JTruthy(Get(tag, "content", JNull))
    THEN tag.f["content"]
    ELSE JNull

\* line 187: the recipe's image is looked at
ConsultsRecipeImage(og, rd) ==
    ~JTruthy(og) /\ JTruthy(Get(rd, "image", JNull))

\* line 192 calls .get on a first element that is neither a string nor a
\* mapping: AttributeError
ImageRaises(img) ==
    img.k = "list" /\ img.items[1].k \notin {"str", "map"}

\* lines 188-194: og_image after the branches on the image's type
DerivedImage(og, img) ==
    CASE img.k = "str" -> img
      [] img.k = "list" ->
            IF img.items[1].k = "str" THEN img.items[1]
            ELSE Get(img.items[1], "url", JStr(""))
      [] img.k = "map" -> Get(img, "url", JStr(""))
      [] OTHER -> og

\* an image_url that prefers the recipe's image to og:image
ImageUrlRecipeFirst(og, rd) ==
    IF JTruthy(Get(rd, "image", JNull))
    THEN DerivedImage(og, Get(rd, "image", JNull))
    ELSE og

\* lines 187-194
ImageUrl(og, rd) ==
    IF ConsultsRecipeImage(og, rd)
    THEN DerivedImage(og, Get(rd, "image", JNull))
    ELSE og

\* a page_text that is never withheld
PageTextAlways(rd, body) == body

\* lines 197 and 202: has_instructions, and the page_text of the result
PageText(rd, body) ==
    IF ~JTruthy(Get(rd, "recipeInstructions", JNull)) THEN body ELSE JNull

\* line 203: recipe_data.get("name") or page_title
TitleOf(rd, pt) ==
    IF JTruthy(Get(rd, "name", JNull)) THEN rd.f["name"] ELSE pt

\* lines 185-213: the result, once the body text is there
ScrapeResult(og, rd, pt, body) ==
    IF JTruthy(rd)
    THEN IF ConsultsRecipeImage(og, rd) /\ ImageRaises(rd.f["image"])
         THEN [success |-> FALSE,
               error |-> <<"Scraping failed: ", "AttributeError">>]
         ELSE [success |-> TRUE, recipe_data |-> rd,
               page_text |-> PageText(rd, body),
               title |-> TitleOf(rd, pt),
               image_url |-> ImageUrl(og, rd)]
    ELSE [success |-> TRUE, recipe_data |-> JNull, page_text |-> body,
          title |-> pt, image_url |-> og]

RequestCauses == { <<"ConnectionError">>, <<"500 Server Error">> }

SInit ==
    /\ spc = "fetch"
    /\ page_title = JNull
    /\ og_tag = JNull
    /\ og_image = JNull
    /\ recipe_data = JNull
    /\ body_text = JNull
    /\ sresult = JNull

\* lines 151-152 and 215-218: the page fetch
FetchPage ==
    /\ spc = "fetch"
    /\ \/ /\ spc' = "parse"
          /\ sresult' = sresult
       \/ /\ sresult' = [success |-> FALSE, error |-> <<"Request timed out">>]
          /\ spc' = "done"
       \/ \E cause \in RequestCauses :
            /\ sresult' = [success |-> FALSE,
                           error |-> <<"Failed to fetch page: ">> \o cause]
            /\ spc' = "done"
    /\ UNCHANGED <<page_title, og_tag, og_image, recipe_data, body_text>>

\* lines 154-163: the title and og:image
ParsePage ==
    /\ spc = "parse"
    /\ page_title' \in PageTitles
    /\ \E tag \in OgTags :
            /\ og_tag' = tag
            /\ og_image' = OgImageOf(tag)
    /\ spc' = "jsonld"
    /\ UNCHANGED <<recipe_data, body_text, sresult>>

\* lines 166-174: the JSON-LD blocks
ScanJsonLd ==
    /\ spc = "jsonld"
    /\ \E blocks \in SeqsUpTo(Blocks, MaxBlocks) :
            recipe_data' = ScanBlocks(blocks, 1)
    /\ spc' = "text"
    /\ UNCHANGED <<page_title, og_tag, og_image, body_text, sresult>>

\* lines 177-213 and 219-220: the body text and the result
BuildResult ==
    /\ spc = "text"
    /\ \E t \in BodyTexts :
            /\ body_text' = Truncate(t)
            /\ sresult' = ScrapeResult(og_image, recipe_data, page_title,
                                       Truncate(t))
    /\ og_image' = IF JTruthy(recipe_data)
                      /\ ~(ConsultsRecipeImage(og_image, recipe_data)
                           /\ ImageRaises(recipe_data.f["image"]))
                   THEN ImageUrl(og_image, recipe_data)
                   ELSE og_image
    /\ spc' = "done"
    /\ UNCHANGED <<page_title, og_tag, recipe_data>>

InitScrape == TIdle /\ CIdle /\ FIdle /\ SInit

NextScrape ==
    \/ FetchPage /\ UNCHANGED <<tvars, cvars, fvars>>
    \/ ParsePage /\ UNCHANGED <<tvars, cvars, fvars>>
    \/ ScanJsonLd /\ UNCHANGED <<tvars, cvars, fvars>>
    \/ BuildResult /\ UNCHANGED <<tvars, cvars, fvars>>

SpecScrape == InitScrape /\ [][NextScrape]_vars

-----------------------------------------------------------------------------
(* Properties of the recipe scraper, checked under SpecScrape.             *)

Scraped == spc = "done" /\ sresult.success

\* the body text of the page, cut to the limit
IsCutBody(t) ==
    /\ t = body_text
    /\ t.k = "text"
    /\ t.len = (IF t.of > PageTextLimit THEN PageTextLimit ELSE t.of)

\* C7 as stated: page_text is none when a recipe node with a
\* recipeInstructions field was found, and the cut body text otherwise.
TextWithheldWhenInstructionsPresent ==
    Scraped =>
        IF JTruthy(recipe_data)
           /\ "recipeInstructions" \in DOMAIN recipe_data.f
        THEN sresult.page_text = JNull
        ELSE IsCutBody(sresult.page_text)

\* C7 amended: page_text is none when a recipe node was found whose
\* recipeInstructions value is non-empty, and is the body text cut to at
\* most 8000 characters otherwise: no recipe node, no recipeInstructions
\* field, or an empty one.
TextWithheldWhenInstructionsNonEmpty ==
    Scraped =>
        /\ sresult.recipe_data = recipe_data
        /\ IF /\ JTruthy(recipe_data)
              /\ "recipeInstructions" \in DOMAIN recipe_data.f
              /\ JTruthy(recipe_data.f["recipeInstructions"])
           THEN sresult.page_text = JNull
           ELSE IsCutBody(sresult.page_text)

\* C7's case: a recipe whose recipeInstructions field is there but empty
\* comes back with the page text, cut from 8001 characters to 8000
EmptyInstructionsKeepPageText ==
    /\ Scraped
    /\ JTruthy(recipe_data)
    /\ Get(recipe_data, "recipeInstructions", JNull) = JList(<<>>)
    /\ body_text = [k |-> "text", of |-> 8001, len |-> 8000]
    /\ sresult.page_text = body_text

\* the image url the recipe's image field stands for
ImageFieldUrl(img) ==
    IF img.k = "str" THEN img
    ELSE IF img.k = "list" /\ img.items[1].k = "str" THEN img.items[1]
    ELSE IF img.k = "list" /\ "url" \in DOMAIN img.items[1].f
         THEN img.items[1].f["url"]
    ELSE IF img.k = "map" /\ "url" \in DOMAIN img.f THEN img.f["url"]
    ELSE IF img.k \in {"list", "map"} THEN JStr("")
    ELSE JNull

HasOgContent ==
    /\ og_tag # JNull
    /\ "content" \in DOMAIN og_tag.f
    /\ og_tag.f["content"] # JStr("")

\* C8: in a successful result, image_url is the content of the page's
\* og:image tag when that is non-empty, whatever the recipe's image is;
\* otherwise, when a recipe node with a non-empty image was found, it is
\* the string itself, the first element of a sequence or that element's
\* url, or the url of a single object (the empty string when the object
\* has no url); otherwise it is none.
OgImageWinsOverRecipeImage ==
    Scraped =>
        IF HasOgContent THEN sresult.image_url = og_tag.f["content"]
        ELSE IF JTruthy(recipe_data)
                /\ JTruthy(Get(recipe_data, "image", JNull))
        THEN sresult.image_url = ImageFieldUrl(recipe_data.f["image"])
        ELSE sresult.image_url = JNull

\* C8's case: og:image and a recipe image are both there
BothImagesPresent ==
    /\ Scraped
    /\ HasOgContent
    /\ JTruthy(recipe_data)
    /\ Get(recipe_data, "image", JNull) = JStr("https://img/y.jpg")
    /\ sresult.image_url = JStr("https://img/x.jpg")

====
